---- MODULE Spec2Model ----
(***************************************************************************)
(* Model of src/main.py: the catalog enumerator DomodedovoGradUrlsParser   *)
(* and the detail extractor DomodedovoGradFlatsParser, run one after the   *)
(* other by main().  The web site is the environment: every HTTP request   *)
(* is answered by a nondeterministically chosen response.                  *)
(*                                                                         *)
(* Python values that may be of several types are pairs <<type, value>>.   *)
(* Texts on which the code works character by character are sequences of   *)
(* one-character strings.                                                  *)
(***************************************************************************)
EXTENDS Integers, Sequences, FiniteSets, TLC

VARIABLES
    pc,              \* position in main(): the function about to run its next step
    retries,         \* the local `retries` counter of the retry loop in progress
    flats_amount,    \* collect(): result of __get_flats_amount (Python value)
    flats_per_page,  \* collect(): result of __get_count_per_page
    total,           \* collect(): result of _calculate_paging
    pages_urls,      \* collect(): the list of catalog page URLs
    page_idx,        \* get_flats_urls: index in pages_urls of the page in progress
    result_urls,     \* get_flats_urls: the hrefs accumulated in `result`
    flats_urls,      \* main(): the set returned by the enumerator's collect()
    todo,            \* extractor collect(): URLs of flats_urls not yet iterated
    flat_url,        \* extractor collect(): the URL of the current iteration
    page_text,       \* extractor collect(): what get_flat_page returned
    result,          \* extractor collect(): the list of records
    output,          \* main(): flats_info_json
    exc,             \* the exception that left main(), "" while there is none
    raised_in,       \* the function whose request or statement raised exc
    amount_log,      \* outcomes of the requests to the count endpoint
    per_page_reqs,   \* number of first-page density requests
    page_log,        \* page numbers requested by get_flats_urls, in order
    last_status,     \* status of the latest response in get_flats_urls, 0 if none
    flat_log,        \* outcomes of the requests of the current get_flat_page call
    plan_reqs,       \* number of floor-plan image requests
    emitted,         \* URLs for which a record was appended to result
    omitted          \* URLs left without a record while the loop went on

vars == <<pc, retries, flats_amount, flats_per_page, total, pages_urls, page_idx,
          result_urls, flats_urls, todo, flat_url, page_text, result, output,
          exc, raised_in, amount_log, per_page_reqs, page_log, last_status,
          flat_log, plan_reqs, emitted, omitted>>

-----------------------------------------------------------------------------
(* Bounds of the explored inputs *)

\* largest prodCount the count endpoint answers
MaxCount == 3
\* largest number of anchors on one catalog page
MaxAnchors == 2
\* largest arguments of _calculate_paging explored on its own
MaxAmount == 100
MaxPerPage == 24

-----------------------------------------------------------------------------
(* Python values *)

PyNone == <<"NoneType", "None">>
PyInt(n) == <<"int", n>>
PyStr(s) == <<"str", s>>
\* a local variable before its first assignment
Unset == <<"unset", "">>

\* truth value of a Python object: None, 0 and empty containers are false
Truthy(v) ==
    CASE v[1] = "NoneType" -> FALSE
      [] v[1] = "int" -> v[2] # 0
      [] v[1] = "list" -> Len(v[2]) > 0
      [] OTHER -> TRUE

\* Python's == between an int and another object
PyEqInt(n, v) == v[1] = "int" /\ v[2] = n

Range(s) == {s[i] : i \in 1..Len(s)}

SeqsUpTo(S, n) == UNION {[1..k -> S] : k \in 0..n}

\* `sub in s` for Python strings
Contains(s, sub) ==
    \E i \in 1..(Len(s) - Len(sub) + 1) : SubSeq(s, i, i + Len(sub) - 1) = sub

DigitChars == <<"0", "1", "2", "3", "4", "5", "6", "7", "8", "9">>
IsDigit(c) == c \in Range(DigitChars)
DigitVal(c) == (CHOOSE i \in 1..10 : DigitChars[i] = c) - 1

\* ''.join([char for char in s if char.isdigit()])
RECURSIVE OnlyDigits(_)
OnlyDigits(s) ==
    IF Len(s) = 0 THEN <<>>
    ELSE (IF IsDigit(Head(s)) THEN <<Head(s)>> ELSE <<>>) \o OnlyDigits(Tail(s))

\* str.replace for one-character old and new
Replace(s, old, new) == [i \in 1..Len(s) |-> IF s[i] = old THEN new ELSE s[i]]

\* str.strip() and str.strip(c)
RECURSIVE LStrip(_, _)
LStrip(s, Drop) ==
    IF Len(s) > 0 /\ Head(s) \in Drop THEN LStrip(Tail(s), Drop) ELSE s
RECURSIVE RStrip(_, _)
RStrip(s, Drop) ==
    IF Len(s) > 0 /\ s[Len(s)] \in Drop THEN RStrip(SubSeq(s, 1, Len(s) - 1), Drop) ELSE s
Strip(s, Drop) == RStrip(LStrip(s, Drop), Drop)

\* value of a sequence of digit characters
RECURSIVE DigitsValue(_)
DigitsValue(s) ==
    IF Len(s) = 0 THEN 0
    ELSE 10 * DigitsValue(SubSeq(s, 1, Len(s) - 1)) + DigitVal(s[Len(s)])

AllDigits(s) == \A i \in 1..Len(s) : IsDigit(s[i])

Ok(v) == [ok |-> TRUE, val |-> v]
Err(e) == [ok |-> FALSE, exc |-> e]

\* int(s) for a str: surrounding whitespace and one sign are accepted, then
\* only decimal digits (underscore separators are not modelled)
ParseInt(s) ==
    LET t == Strip(s, {" ", "\n", "\t"})
        signed == Len(t) > 0 /\ t[1] \in {"+", "-"}
        body == IF signed THEN Tail(t) ELSE t
    IN  IF Len(body) > 0 /\ AllDigits(body)
        THEN Ok(PyInt(IF signed /\ t[1] = "-" THEN 0 - DigitsValue(body)
                                              ELSE DigitsValue(body)))
        ELSE Err("ValueError")

\* a float is the pair <<digits without the point, number of fraction digits>>
\* with trailing fraction zeros removed
RECURSIVE NormFloat(_, _)
NormFloat(num, scale) ==
    IF scale > 0 /\ num % 10 = 0 THEN NormFloat(num \div 10, scale - 1)
    ELSE <<"float", <<num, scale>>>>

\* float(s) for a str of the shapes digits, digits.digits, digits. and .digits
\* (sign, exponent, inf and nan are not modelled)
ParseFloat(s) ==
    LET t == Strip(s, {" ", "\n", "\t"})
        points == {i \in 1..Len(t) : t[i] = "."}
        digits == OnlyDigits(t)
    IN  IF /\ Cardinality(points) <= 1
           /\ Len(digits) > 0
           /\ \A i \in 1..Len(t) : IsDigit(t[i]) \/ t[i] = "."
        THEN Ok(NormFloat(DigitsValue(digits),
                          IF points = {} THEN 0
                          ELSE Len(t) - (CHOOSE i \in points : TRUE)))
        ELSE Err("ValueError")

-----------------------------------------------------------------------------
(* Program constants *)

RETRIES == 3
base_url == "https://www.domodedovograd.ru/domodedovo?grp=242602&page="
url_adapter == "https://www.domodedovograd.ru/"

-----------------------------------------------------------------------------
(* The web site *)

Hrefs == {"/f1", "/f2"}

\* anchors of a catalog page: product cards and one anchor of another class
Anchors == {[class |-> "product-card", href |-> h] : h \in Hrefs}
             \cup {[class |-> "nav-link", href |-> "/about"]}

CatalogPages == SeqsUpTo(Anchors, MaxAnchors)

\* a request either raises (requests.Timeout, another RequestException) or
\* yields a response with status_code and text
Timeout == [kind |-> "timeout"]
ConnError == [kind |-> "error"]
Response(status, text) == [kind |-> "response", status_code |-> status, text |-> text]

\* body of the count endpoint: a JSON object, or text that is not JSON
NotJson == <<"text", "<html>">>
JsonText(obj) == <<"json", obj>>
CountBodies == {JsonText([prodCount |-> PyInt(n)]) : n \in -1..MaxCount}
                 \cup {JsonText([error |-> PyStr("busy")]), NotJson}

CountResponses == {Timeout, ConnError, Response(404, NotJson)}
                    \cup {Response(200, b) : b \in CountBodies}

CatalogResponses == {Timeout, ConnError, Response(404, <<>>)}
                      \cup {Response(200, p) : p \in CatalogPages}

-----------------------------------------------------------------------------
(* DomodedovoGradUrlsParser *)

\* json.loads: the parsed object, or JSONDecodeError
json_loads(text) ==
    IF text[1] = "json" THEN [ok |-> TRUE, val |-> text[2]]
    ELSE [ok |-> FALSE, exc |-> "JSONDecodeError"]

\* the hrefs of the anchors of class product-card, in document order
RECURSIVE parse_flats_urls_on_page(_)
parse_flats_urls_on_page(page_source) ==
    IF Len(page_source) = 0 THEN <<>>
    ELSE (IF Head(page_source).class = "product-card"
          THEN <<Head(page_source).href>> ELSE <<>>)
         \o parse_flats_urls_on_page(Tail(page_source))

\* the quotient without the extra page for a remainder
calculate_paging_floor(amount, per_page) ==
    IF ~Truthy(amount) \/ per_page = 0 THEN 0
    ELSE amount[2] \div per_page

\* flats_per_page is a length, so the divisor is positive where // and % are
\* reached; for such a divisor Python's // and % are \div and %
calculate_paging(amount, per_page) ==
    IF ~Truthy(amount) \/ per_page = 0 THEN 0
    ELSE IF amount[2] % per_page = 0 THEN amount[2] \div per_page
    ELSE (amount[2] \div per_page) + 1

\* range(0, total + 1) in place of range(1, total + 1)
PagesUrls_from_zero(n) == [i \in 1..(n + 1) |-> <<base_url, i - 1>>]

\* [self.base_url + str(page_num) for page_num in range(1, total + 1)]; a page
\* URL is the pair of the prefix and the page number it ends with
PagesUrls(n) == [page_num \in 1..n |-> <<base_url, page_num>>]

Raise(e, where) ==
    /\ pc' = "raised"
    /\ exc' = e
    /\ raised_in' = where

NoRaise == UNCHANGED <<exc, raised_in>>

\* __get_flats_amount ending its loop with return 0
flats_amount_step_zero(left, resp) ==
    CASE resp.kind = "timeout" ->
           IF left = 0 THEN [do |-> "return", val |-> PyInt(0)]
           ELSE [do |-> "continue"]
      [] resp.kind = "error" -> [do |-> "raise", exc |-> "ConnectionError"]
      [] OTHER ->
           IF resp.status_code # 200 THEN [do |-> "return", val |-> PyInt(0)]
           ELSE IF ~json_loads(resp.text).ok THEN [do |-> "return", val |-> PyInt(0)]
           ELSE IF "prodCount" \in DOMAIN json_loads(resp.text).val
           THEN [do |-> "return", val |-> json_loads(resp.text).val.prodCount]
           ELSE [do |-> "raise", exc |-> "KeyError"]

\* what one pass of the while loop of __get_flats_amount does with the
\* outcome of its request, `left` being retries after the decrement: go round
\* again, return a value or raise; the loop ending without return yields None
flats_amount_step(left, resp) ==
    CASE resp.kind = "timeout" ->
           IF left = 0 THEN [do |-> "return", val |-> PyNone]
           ELSE [do |-> "continue"]
      [] resp.kind = "error" -> [do |-> "raise", exc |-> "ConnectionError"]
      [] OTHER ->
           IF resp.status_code # 200 THEN [do |-> "return", val |-> PyInt(0)]
           ELSE IF ~json_loads(resp.text).ok THEN [do |-> "return", val |-> PyInt(0)]
           ELSE IF "prodCount" \in DOMAIN json_loads(resp.text).val
           THEN [do |-> "return", val |-> json_loads(resp.text).val.prodCount]
           ELSE [do |-> "raise", exc |-> "KeyError"]

\* one pass of the while loop of __get_flats_amount
get_flats_amount ==
    /\ pc = "get_flats_amount"
    /\ retries > 0
    /\ \E resp \in CountResponses :
         LET step == flats_amount_step(retries - 1, resp) IN
         /\ retries' = retries - 1
         /\ amount_log' = Append(amount_log, resp)
         /\ CASE step.do = "continue" ->
                   UNCHANGED <<flats_amount, pc, exc, raised_in>>
              [] step.do = "return" ->
                   /\ flats_amount' = step.val
                   /\ pc' = "get_count_per_page"
                   /\ NoRaise
              [] OTHER ->
                   /\ Raise(step.exc, "get_flats_amount")
                   /\ UNCHANGED flats_amount
    /\ UNCHANGED <<flats_per_page, total, pages_urls, page_idx, result_urls,
                   flats_urls, todo, flat_url, page_text, result, output,
                   per_page_reqs, page_log, last_status, flat_log, plan_reqs,
                   emitted, omitted>>

\* __get_count_per_page: one request for catalog page 1, not retried and
\* with no handler for a timeout
get_count_per_page ==
    /\ pc = "get_count_per_page"
    /\ per_page_reqs' = per_page_reqs + 1
    /\ \E response \in CatalogResponses :
         CASE response.kind = "timeout" ->
                /\ Raise("Timeout", "get_count_per_page")
                /\ UNCHANGED flats_per_page
           [] response.kind = "error" ->
                /\ Raise("ConnectionError", "get_count_per_page")
                /\ UNCHANGED flats_per_page
           [] OTHER ->
                /\ flats_per_page' =
                     IF response.status_code # 200 THEN 0
                     ELSE Len(parse_flats_urls_on_page(response.text))
                /\ pc' = "calculate_paging"
                /\ NoRaise
    /\ UNCHANGED <<retries, flats_amount, total, pages_urls, page_idx, result_urls,
                   flats_urls, todo, flat_url, page_text, result, output,
                   amount_log, page_log, last_status, flat_log, plan_reqs,
                   emitted, omitted>>

\* collect(), lines 139-142 up to the first request of get_flats_urls
collect_paging ==
    /\ pc = "calculate_paging"
    /\ total' = calculate_paging(flats_amount, flats_per_page)
    /\ pages_urls' = PagesUrls(calculate_paging(flats_amount, flats_per_page))
    /\ result_urls' = {}
    /\ page_idx' = 1
    /\ retries' = RETRIES
    /\ pc' = "get_flats_urls"
    /\ UNCHANGED <<flats_amount, flats_per_page, flats_urls, todo, flat_url,
                   page_text, result, output, exc, raised_in, amount_log,
                   per_page_reqs, page_log, last_status, flat_log, plan_reqs,
                   emitted, omitted>>

\* one pass of the while loop of get_flats_urls: the loop has no break, so the
\* page in progress is left only when retries reaches 0
get_flats_urls ==
    /\ pc = "get_flats_urls"
    /\ page_idx <= Len(pages_urls)
    /\ retries > 0
    /\ page_log' = Append(page_log, pages_urls[page_idx][2])
    /\ \E response \in CatalogResponses :
         CASE response.kind = "timeout" ->
                /\ Raise("Timeout", "get_flats_urls")
                /\ UNCHANGED <<retries, page_idx, result_urls, last_status>>
           [] response.kind = "error" ->
                /\ Raise("ConnectionError", "get_flats_urls")
                /\ UNCHANGED <<retries, page_idx, result_urls, last_status>>
           [] OTHER ->
                /\ last_status' = response.status_code
                /\ result_urls' =
                     IF response.status_code = 200
                     THEN result_urls \cup Range(parse_flats_urls_on_page(response.text))
                     ELSE result_urls
                /\ IF retries - 1 = 0
                   THEN /\ page_idx' = page_idx + 1
                        /\ retries' = RETRIES
                   ELSE /\ retries' = retries - 1
                        /\ UNCHANGED page_idx
                /\ UNCHANGED pc
                /\ NoRaise
    /\ UNCHANGED <<flats_amount, flats_per_page, total, pages_urls, flats_urls,
                   todo, flat_url, page_text, result, output, amount_log,
                   per_page_reqs, flat_log, plan_reqs, emitted, omitted>>

\* collect() without its consistency check
CheckedUrls_unchecked(res, amount) == res

\* the consistency check of collect()
CheckedUrls(res, amount) ==
    IF ~PyEqInt(Cardinality(res), amount) THEN {} ELSE res

\* get_flats_urls returns set(result); collect() checks it and returns, and
\* main() hands the set to the extractor's collect()
collect_return ==
    /\ pc = "get_flats_urls"
    /\ page_idx > Len(pages_urls)
    /\ flats_urls' = CheckedUrls(result_urls, flats_amount)
    /\ todo' = CheckedUrls(result_urls, flats_amount)
    /\ result' = <<>>
    /\ pc' = "flats_collect"
    /\ UNCHANGED <<retries, flats_amount, flats_per_page, total, pages_urls,
                   page_idx, result_urls, flat_url, page_text, output, exc,
                   raised_in, amount_log, per_page_reqs, page_log, last_status,
                   flat_log, plan_reqs, emitted, omitted>>

-----------------------------------------------------------------------------
(* DomodedovoGradFlatsParser *)

\* the marker looked for in the breadcrumb ('Студия' in the source, written
\* here in Latin letters)
StudioMarker == <<"S", "t", "u", "d", "i", "y", "a">>

StudioCrumb == StudioMarker \o <<" ", "2", "8">>
FlatCrumb == <<"K", "v", "a", "r", "t", "i", "r", "a">>

\* the dd/span texts of the definition list, with the given fifth value
ParamsDl(rooms) ==
    << <<"8">>, <<"2">>, <<"5">>, <<"1", "0", "1">>, rooms,
       <<"3", "8", ",", "4">>, <<"1">> >>

PriceText == <<"5", " ", "2", "0", "0", " ", "r">>
CommentText == <<" ", "4", "2", " ">>

\* what the selectors of parse_flat_page find in a listing page
FlatPage(crumbs, dl, price, comments, badges) ==
    [breadcrumbs |-> crumbs, params_dl |-> dl, price |-> price,
     comments |-> comments, badges |-> badges]

FlatPages ==
    {FlatPage(c, d, <<PriceText>>, <<CommentText>>, 0) :
        c \in {<<>>, <<StudioCrumb>>, <<FlatCrumb>>, <<FlatCrumb, StudioCrumb>>},
        d \in {<<>>, ParamsDl(<<"2">>), ParamsDl(<<"-">>)}}
    \cup {FlatPage(<<FlatCrumb>>, ParamsDl(<<"2">>), <<>>, <<CommentText>>, 0),
          FlatPage(<<FlatCrumb>>, ParamsDl(<<"2">>), <<PriceText>>, <<>>, 0),
          FlatPage(<<StudioCrumb>>, SubSeq(ParamsDl(<<"2">>), 1, 4), <<PriceText>>,
                   <<CommentText>>, 0),
          FlatPage(<<FlatCrumb>>, ParamsDl(<<" ", "2">>), <<PriceText>>,
                   <<CommentText>>, 1)}

FlatResponses == {Timeout, ConnError, Response(404, <<>>)}
                   \cup {Response(200, p) : p \in FlatPages}

\* bodies of the floor-plan endpoint: a JSON array of objects
PlanPath == <<"/", "i", "/", "p", ".", "j", "p", "g">>
PlanBodies == {JsonText(<<"list", <<>>>>),
               JsonText(<<"list", <<[sm |-> PlanPath]>>>>),
               JsonText(<<"list", <<[lg |-> PlanPath]>>>>),
               NotJson}

PlanResponses == {Timeout, ConnError, Response(404, NotJson)}
                   \cup {Response(200, b) : b \in PlanBodies}

\* get_plan_images(url): the parsed JSON on status 200, None otherwise; the
\* request and response.json() may raise
get_plan_images(response) ==
    CASE response.kind = "timeout" -> Err("Timeout")
      [] response.kind = "error" -> Err("ConnectionError")
      [] OTHER ->
           IF response.status_code = 200
           THEN (IF json_loads(response.text).ok
                 THEN Ok(json_loads(response.text).val)
                 ELSE Err("JSONDecodeError"))
           ELSE Ok(PyNone)

\* str(plan_images[0].get("sm")): a missing key gives None, whose str is 'None'
PlanSm(plan_images) ==
    IF "sm" \in DOMAIN plan_images[2][1] THEN plan_images[2][1].sm
    ELSE <<"N", "o", "n", "e">>

\* rooms = int(params_dl[4]), with no look at the breadcrumb
Rooms_int_only(flat_type, params_dl) ==
    IF Len(params_dl) < 5 THEN Err("IndexError") ELSE ParseInt(params_dl[5])

\* rooms = int(params_dl[4]) if 'Студия' not in flat_type else 'studio'
Rooms(flat_type, params_dl) ==
    IF ~Contains(flat_type, StudioMarker)
    THEN (IF Len(params_dl) < 5 THEN Err("IndexError") ELSE ParseInt(params_dl[5]))
    ELSE Ok(PyStr("studio"))

\* parse_flat_page(page_text), with the response its floor-plan request gets:
\* the record, or the first exception in statement order
parse_flat_page(text, plan_response) ==
    IF text = PyNone THEN Err("TypeError")
    ELSE LET tree == text[2]
             params_dl == tree.params_dl
         IN
         IF Len(tree.breadcrumbs) = 0 THEN Err("IndexError")
         ELSE IF Len(params_dl) < 4 THEN Err("IndexError")
         ELSE LET flat_type == tree.breadcrumbs[1]
                  rooms == Rooms(flat_type, params_dl)
              IN
         IF ~rooms.ok THEN rooms
         ELSE IF Len(params_dl) < 6 THEN Err("IndexError")
         ELSE LET area == ParseFloat(Replace(params_dl[6], ",", ".")) IN
         IF ~area.ok THEN area
         ELSE IF Len(params_dl) < 7 THEN Err("IndexError")
         ELSE IF Len(tree.price) = 0 THEN Err("IndexError")
         ELSE LET price_finished == ParseFloat(OnlyDigits(tree.price[1])) IN
         IF ~price_finished.ok THEN price_finished
         ELSE IF Len(tree.comments) = 0 THEN Err("IndexError")
         ELSE LET number_on_site == OnlyDigits(tree.comments[1])
                  plan_images == get_plan_images(plan_response)
              IN
         IF ~plan_images.ok THEN plan_images
         ELSE Ok([complex |-> "Domodedovo park",
                  type |-> "flat",
                  building |-> params_dl[1],
                  section |-> params_dl[2],
                  floor |-> params_dl[3],
                  number |-> params_dl[4],
                  number_on_site |-> number_on_site,
                  rooms |-> rooms.val,
                  area |-> area.val,
                  living_area |-> area.val,
                  phase |-> params_dl[7],
                  plan |-> IF Truthy(plan_images.val)
                           THEN <<"str", <<url_adapter>>
                                          \o Strip(PlanSm(plan_images.val), {"/"})>>
                           ELSE PyNone,
                  price_finished |-> price_finished.val,
                  sale_status |-> IF tree.badges > 0 THEN PyStr("reserved") ELSE PyNone,
                  in_sale |-> TRUE,
                  finished |-> 1])

\* whether parse_flat_page gets as far as its floor-plan request
ReachesPlanRequest(text) ==
    \/ parse_flat_page(text, Timeout).ok
    \/ parse_flat_page(text, Timeout).exc = "Timeout"

\* the head of the for loop of the extractor's collect(): the next URL of the
\* set, in any order, or json.dumps(result) and the end of main()
flats_collect ==
    /\ pc = "flats_collect"
    /\ IF todo = {}
       THEN /\ output' = <<"json", result>>
            /\ pc' = "done"
            /\ UNCHANGED <<todo, flat_url, retries, flat_log>>
       ELSE /\ \E u \in todo :
                 /\ flat_url' = u
                 /\ todo' = todo \ {u}
            /\ retries' = RETRIES
            /\ flat_log' = <<>>
            /\ pc' = "get_flat_page"
            /\ UNCHANGED output
    /\ UNCHANGED <<flats_amount, flats_per_page, total, pages_urls, page_idx,
                   result_urls, flats_urls, page_text, result, exc, raised_in,
                   amount_log, per_page_reqs, page_log, last_status, plan_reqs,
                   emitted, omitted>>

\* get_flat_page without a return in the loop: the last response decides
flat_page_step_no_return(left, response) ==
    CASE response.kind = "error" -> [do |-> "raise", exc |-> "ConnectionError"]
      [] OTHER ->
           IF left > 0 THEN [do |-> "continue"]
           ELSE IF response.kind = "response" /\ response.status_code = 200
           THEN [do |-> "return", val |-> <<"str", response.text>>]
           ELSE [do |-> "return", val |-> PyNone]

\* what one pass of the while loop of get_flat_page does with the outcome of
\* its request, `left` being retries after the decrement: a timeout is passed
\* over, a 200 response returns its text, any other response goes round again,
\* the loop ending without return yields None; an exception other than a
\* timeout leaves the function
flat_page_step(left, response) ==
    CASE response.kind = "error" -> [do |-> "raise", exc |-> "ConnectionError"]
      [] response.kind = "response" /\ response.status_code = 200 ->
           [do |-> "return", val |-> <<"str", response.text>>]
      [] OTHER ->
           IF left = 0 THEN [do |-> "return", val |-> PyNone]
           ELSE [do |-> "continue"]

\* one pass of the while loop of get_flat_page, called in the try of collect():
\* an exception is caught there and collect() goes on to the next URL
get_flat_page ==
    /\ pc = "get_flat_page"
    /\ retries > 0
    /\ \E response \in FlatResponses :
         LET step == flat_page_step(retries - 1, response) IN
         /\ retries' = retries - 1
         /\ flat_log' = Append(flat_log, response)
         /\ CASE step.do = "continue" ->
                   UNCHANGED <<page_text, pc, omitted>>
              [] step.do = "return" ->
                   /\ page_text' = step.val
                   /\ pc' = "parse_flat_page"
                   /\ UNCHANGED omitted
              [] OTHER ->
                   /\ pc' = "flats_collect"
                   /\ omitted' = omitted \cup {flat_url}
                   /\ UNCHANGED page_text
    /\ UNCHANGED <<flats_amount, flats_per_page, total, pages_urls, page_idx,
                   result_urls, flats_urls, todo, flat_url, result, output, exc,
                   raised_in, amount_log, per_page_reqs, page_log, last_status,
                   plan_reqs, emitted>>

\* the else branch of collect(): result.append(self.parse_flat_page(page_text)),
\* outside the try, so that an exception of parse_flat_page leaves collect()
parse_and_append ==
    /\ pc = "parse_flat_page"
    /\ \E plan_response \in PlanResponses :
         LET parsed == parse_flat_page(page_text, plan_response) IN
         IF parsed.ok
         THEN /\ result' = Append(result, parsed.val)
              /\ emitted' = emitted \cup {flat_url}
              /\ pc' = "flats_collect"
              /\ NoRaise
         ELSE /\ Raise(parsed.exc,
                       IF parsed.exc \in {"Timeout", "ConnectionError", "JSONDecodeError"}
                       THEN "get_plan_images" ELSE "parse_flat_page")
              /\ UNCHANGED <<result, emitted>>
    /\ plan_reqs' = IF ReachesPlanRequest(page_text) THEN plan_reqs + 1 ELSE plan_reqs
    /\ UNCHANGED <<retries, flats_amount, flats_per_page, total, pages_urls,
                   page_idx, result_urls, flats_urls, todo, flat_url, page_text,
                   output, amount_log, per_page_reqs, page_log, last_status,
                   flat_log, omitted>>

-----------------------------------------------------------------------------
(* main() *)

\* the variables that start the same way in every specification
InitRest ==
    /\ retries = RETRIES
    /\ total = 0
    /\ pages_urls = <<>>
    /\ page_idx = 1
    /\ result_urls = {}
    /\ flats_urls = {}
    /\ todo = {}
    /\ flat_url = ""
    /\ page_text = Unset
    /\ result = <<>>
    /\ output = Unset
    /\ exc = ""
    /\ raised_in = ""
    /\ amount_log = <<>>
    /\ per_page_reqs = 0
    /\ page_log = <<>>
    /\ last_status = 0
    /\ flat_log = <<>>
    /\ plan_reqs = 0
    /\ emitted = {}
    /\ omitted = {}

Init ==
    /\ pc = "get_flats_amount"
    /\ flats_amount = Unset
    /\ flats_per_page = 0
    /\ InitRest

Next ==
    \/ get_flats_amount
    \/ get_count_per_page
    \/ collect_paging
    \/ get_flats_urls
    \/ collect_return
    \/ flats_collect
    \/ get_flat_page
    \/ parse_and_append

Spec == Init /\ [][Next]_vars

-----------------------------------------------------------------------------
(* _calculate_paging called on its own with any arguments within the bounds *)

PagingInit ==
    /\ pc = "call_calculate_paging"
    /\ flats_amount \in {PyInt(a) : a \in 0..MaxAmount}
    /\ flats_per_page \in 0..MaxPerPage
    /\ InitRest

call_calculate_paging ==
    /\ pc = "call_calculate_paging"
    /\ total' = calculate_paging(flats_amount, flats_per_page)
    /\ pc' = "paging_returned"
    /\ UNCHANGED <<retries, flats_amount, flats_per_page, pages_urls, page_idx,
                   result_urls, flats_urls, todo, flat_url, page_text, result,
                   output, exc, raised_in, amount_log, per_page_reqs, page_log,
                   last_status, flat_log, plan_reqs, emitted, omitted>>

PagingNext == call_calculate_paging

PagingSpec == PagingInit /\ [][PagingNext]_vars

-----------------------------------------------------------------------------
(* Positions of main() *)

\* the enumerator's collect() has returned its set to main()
EnumeratorReturned ==
    \/ pc \in {"flats_collect", "get_flat_page", "parse_flat_page", "done"}
    \/ pc = "raised" /\ raised_in \in {"parse_flat_page", "get_plan_images"}

\* __get_flats_amount has returned to collect()
AmountReturned ==
    \/ pc \in {"get_count_per_page", "calculate_paging", "get_flats_urls"}
    \/ EnumeratorReturned
    \/ pc = "raised" /\ raised_in \in {"get_count_per_page", "get_flats_urls"}

\* collect() has computed the page count
PagingDone ==
    \/ pc = "get_flats_urls"
    \/ EnumeratorReturned
    \/ pc = "raised" /\ raised_in = "get_flats_urls"

AllTimedOut(log) == Len(log) = RETRIES /\ \A i \in 1..Len(log) : log[i].kind = "timeout"

Is200(resp) == resp.kind = "response" /\ resp.status_code = 200

-----------------------------------------------------------------------------
(* Claims *)

\* C1: for total >= 0 and perPage >= 0, _calculate_paging returns 0 if either
\* argument is 0, total // perPage when perPage divides total, and
\* total // perPage + 1 otherwise, which is the least number of pages of
\* perPage listings that hold total listings; (100, 24) -> 5, (96, 24) -> 4,
\* (0, 24) -> 0.
C1_PagingIsCeiling ==
    pc = "paging_returned" =>
        LET a == flats_amount[2]
            p == flats_per_page
        IN  /\ (a = 0 \/ p = 0) => total = 0
            /\ (a > 0 /\ p > 0) =>
                 /\ total * p >= a
                 /\ (total - 1) * p < a
                 /\ (a % p = 0) => total = a \div p
                 /\ (a % p # 0) => total = (a \div p) + 1
            /\ (a = 100 /\ p = 24) => total = 5
            /\ (a = 96 /\ p = 24) => total = 4
            /\ (a = 0 /\ p = 24) => total = 0

C1_Witness ==
    pc = "paging_returned" /\ flats_amount = PyInt(100) /\ flats_per_page = 24
        /\ total = 5

\* C2: whenever the enumerator's collect() returns, its result is the empty
\* set or a set whose size is the count fetched from the count endpoint
\* during that call.
C2_EmptyOrExactCount ==
    EnumeratorReturned =>
        \/ flats_urls = {}
        \/ /\ flats_amount[1] = "int"
           /\ Cardinality(flats_urls) = flats_amount[2]

\* collect() returned a set of two URLs gathered over two catalog pages
C2_Witness ==
    /\ EnumeratorReturned
    /\ Cardinality(flats_urls) = 2
    /\ flats_amount = PyInt(2)
    /\ Range(page_log) = {1, 2}

\* C3: the extractor's collect(urls) emits one record for each URL fetched
\* and parsed successfully, omits every URL whose fetch fails for good or
\* whose parse fails on a missing HTML node, goes on with the remaining URLs
\* and returns the JSON array.
C3_SilentSkip ==
    /\ ~(pc = "raised" /\ raised_in = "parse_flat_page"
            /\ exc \in {"TypeError", "IndexError"})
    /\ pc = "done" =>
         /\ output = <<"json", result>>
         /\ Len(result) = Cardinality(emitted)
         /\ emitted \cup omitted = flats_urls

\* C4: a network timeout on any HTTP request of a full run never leaves the
\* run as an error.
C4_TimeoutNeverPropagates ==
    ~(pc = "raised" /\ exc = "Timeout")

\* C5: __get_flats_amount issues at most 3 requests, a further one only after
\* a timeout; it stops at the first response and returns 0 if that response
\* is not 200 or not JSON and the parsed prodCount otherwise; whatever the
\* outcomes, what it returns is an integer.
C5_AmountContract ==
    /\ Len(amount_log) <= 3
    /\ \A i \in 1..(Len(amount_log) - 1) : amount_log[i].kind = "timeout"
    /\ AmountReturned =>
         LET last == amount_log[Len(amount_log)] IN
         /\ flats_amount[1] = "int"
         /\ (last.kind = "response" /\ last.status_code # 200) =>
                flats_amount = PyInt(0)
         /\ (Is200(last) /\ last.text = NotJson) => flats_amount = PyInt(0)
         /\ (Is200(last) /\ last.text # NotJson) =>
                flats_amount = last.text[2].prodCount

\* C6: the catalog page numbers requested by the page-collection step are
\* exactly 1..N, N = _calculate_paging(total count, listings found on page 1),
\* in increasing order and none outside that range; a count of 2 with 1
\* listing on page 1 gives exactly pages 1 and 2 and at most 2 unique URLs.
C6_PagesOneToN ==
    LET N == calculate_paging(flats_amount, flats_per_page) IN
    /\ \A i \in 1..Len(page_log) : page_log[i] \in 1..N
    /\ \A i \in 1..Len(page_log) : \A j \in i..Len(page_log) :
         page_log[i] <= page_log[j]
    /\ \A n \in Range(page_log) : \A m \in 1..n : m \in Range(page_log)
    /\ EnumeratorReturned =>
         /\ Range(page_log) = 1..N
         /\ (flats_amount = PyInt(2) /\ flats_per_page = 1) =>
              /\ Range(page_log) = {1, 2}
              /\ Cardinality(flats_urls) <= 2

C6_Witness ==
    /\ EnumeratorReturned
    /\ flats_amount = PyInt(2)
    /\ flats_per_page = 1
    /\ Range(page_log) = {1, 2}
    /\ Cardinality(flats_urls) = 2

\* the record appended last belongs to page_text
JustParsed == pc = "flats_collect" /\ flat_url \in emitted

\* C7: rooms is 'studio' whenever the first breadcrumb contains the studio
\* marker, whatever the fifth definition-list value is; for any other first
\* breadcrumb it is the integer written in that fifth value; it is never any
\* other string.
C7_RoomsStudioOrInt ==
    /\ \A i \in 1..Len(result) :
         result[i].rooms = PyStr("studio") \/ result[i].rooms[1] = "int"
    /\ JustParsed =>
         LET rooms == result[Len(result)].rooms
             tree == page_text[2]
         IN  IF Contains(tree.breadcrumbs[1], StudioMarker)
             THEN rooms = PyStr("studio")
             ELSE /\ rooms[1] = "int"
                  /\ tree.params_dl[5] \in {<<"2">>, <<" ", "2">>} => rooms = PyInt(2)
                  /\ tree.params_dl[5] # <<"-">>

\* a studio record made from a page whose fifth value is not an integer
C7_Witness ==
    /\ JustParsed
    /\ Contains(page_text[2].breadcrumbs[1], StudioMarker)
    /\ page_text[2].params_dl[5] = <<"-">>
    /\ result[Len(result)].rooms = PyStr("studio")

\* C8: get_flats_urls requests each catalog page URL at most 3 times, and
\* again only when the previous response for it was not 200.
C8_RetryOnlyAfterNon200 ==
    [][Len(page_log') > Len(page_log) =>
         LET page == page_log'[Len(page_log')] IN
         /\ Cardinality({i \in 1..Len(page_log') : page_log'[i] = page}) <= 3
         /\ page \in Range(page_log) => last_status # 200]_vars

\* C9: get_flat_page issues at most 3 requests for a listing URL; it returns
\* the body of the first 200 response and issues no request after it; if none
\* of the 3 attempts yields a 200 response, each timing out or answering
\* non-200, it returns None without raising.
C9_FlatPageRetries ==
    /\ Len(flat_log) <= 3
    /\ \A i \in 1..(Len(flat_log) - 1) : ~Is200(flat_log[i])
    /\ pc = "get_flat_page" => Len(flat_log) < 3
    /\ pc = "parse_flat_page" =>
         LET last == flat_log[Len(flat_log)] IN
         /\ Is200(last) => page_text = <<"str", last.text>>
         /\ ~Is200(last) =>
              /\ page_text = PyNone
              /\ Len(flat_log) = 3
              /\ \A i \in 1..3 : flat_log[i].kind \in {"timeout", "response"}
    /\ (Len(flat_log) = 3 /\ \A i \in 1..3 :
            flat_log[i].kind \in {"timeout", "response"} /\ ~Is200(flat_log[i]))
         => (pc = "parse_flat_page" \/ raised_in = "parse_flat_page")
              /\ page_text = PyNone

\* three attempts, a timeout among them, none answered 200: None is returned
C9_Witness ==
    /\ pc = "parse_flat_page"
    /\ Len(flat_log) = 3
    /\ flat_log[1].kind = "timeout"
    /\ flat_log[3].kind = "response"
    /\ page_text = PyNone

\* C10: if all 3 attempts on the count endpoint time out, __get_flats_amount
\* yields None, not 0; collect() then computes a page count of 0, requests no
\* catalog page in the page-collection step, makes the first-page density
\* request once, and what it returns is the empty set.
C10_AllTimeoutsGiveNone ==
    AllTimedOut(amount_log) =>
        /\ flats_amount = PyNone
        /\ flats_amount # PyInt(0)
        /\ page_log = <<>>
        /\ per_page_reqs <= 1
        /\ PagingDone => total = 0 /\ pages_urls = <<>>
        /\ EnumeratorReturned => flats_urls = {} /\ per_page_reqs = 1

C10_Witness ==
    /\ AllTimedOut(amount_log)
    /\ flats_amount = PyNone
    /\ EnumeratorReturned
    /\ flats_per_page > 0
    /\ total = 0
    /\ flats_urls = {}

====
